---- MODULE Spec2Model ----
(***************************************************************************)
(* Dense multilinear polynomials, the equality polynomial and the          *)
(* polynomial evaluation proof of src/src/dense_mlpoly.rs.                 *)
(*                                                                         *)
(* Vectors are TLA+ sequences: the Rust entry v[i] is the TLA+ entry       *)
(* v[i + 1].  Scalars are residues modulo P.                               *)
(***************************************************************************)
EXTENDS Integers, Sequences, FiniteSets, TLC

\* ------------------------------------------------------------------ bounds
\* Modulus of the scalar field (the real one is a 255-bit prime).
P == 31
\* Largest number of variables of a polynomial / coordinates of a point.
MaxVars == 2
\* Largest point length handed to EqPolynomial in EqSpec.
MaxEll == 4

\* ------------------------------------------------------------------ scalars
Scalars == 0 .. (P - 1)
one == 1 % P
zero == 0
FAdd(a, b) == (a + b) % P
FSub(a, b) == (a - b) % P
FMul(a, b) == (a * b) % P

\* Coordinates the points are drawn from: 0, 1 (Boolean), non-Boolean small
\* values and the largest residue.
Coords == {0, 1, 3, 4, P - 1}
\* Scalars the binding calls are given: one Boolean, two not.
BindCoords == {1, 3, 4}

RECURSIVE SumTo(_, _)
\* (0..n).map(f).sum(), f given as a sequence of n scalars
SumTo(f, n) == IF n = 0 THEN zero ELSE FAdd(SumTo(f, n - 1), f[n])

RECURSIVE ProdTo(_, _)
\* (0..n).map(f).product()
ProdTo(f, n) == IF n = 0 THEN one ELSE FMul(ProdTo(f, n - 1), f[n])

\* ------------------------------------------------------------------ Math
RECURSIVE pow2(_)
\* Math::pow2: 2^n
pow2(n) == IF n <= 0 THEN 1 ELSE 2 * pow2(n - 1)

RECURSIVE log2(_)
\* Math::log2: (n as f64).log2() as usize, the floor, 0 for n = 0
log2(n) == IF n <= 1 THEN 0 ELSE 1 + log2(n \div 2)

RECURSIVE next_power_of_two(_, _)
\* usize::next_power_of_two: the least power of two >= n, from candidate c
next_power_of_two(n, c) == IF c >= n THEN c ELSE next_power_of_two(n, 2 * c)

IsPow2(n) == n >= 1 /\ pow2(log2(n)) = n

\* All sequences of length n over S.
Vectors(S, n) == [1 .. n -> S]

\* ------------------------------------------------------------------ EqPolynomial
\* What a call that may panic gives back: the scalar, or the panic
Value(v) == [panic |-> FALSE, val |-> v]
Panic == [panic |-> TRUE, val |-> 0]

\* EqPolynomial::evaluate(rx) for the point r: assert_eq!(r.len(), rx.len())
\* panics on unequal lengths, else the product over the coordinates
eq_evaluate(r, rx) ==
  IF Len(r) # Len(rx) THEN Panic
  ELSE Value(ProdTo([i \in 1 .. Len(rx) |->
                       FAdd(FMul(r[i], rx[i]), FMul(FSub(one, r[i]), FSub(one, rx[i])))],
                    Len(rx)))

\* One pass of the doubling loop walking upwards (i = 1, 3, ...), which
\* reads entries the same pass has already overwritten.
RECURSIVE evals_pass_up(_, _, _, _)
evals_pass_up(ev, rj, i, last) ==
  IF i > last THEN ev
  ELSE LET scalar == ev[(i \div 2) + 1]
           e1 == [ev EXCEPT ![i + 1] = FMul(scalar, rj)]
           e2 == [e1 EXCEPT ![i] = FSub(scalar, e1[i + 1])]
       IN  evals_pass_up(e2, rj, i + 2, last)

evals_pass_ascending(ev, rj, i) == evals_pass_up(ev, rj, 1, i)

RECURSIVE evals_pass(_, _, _)
\* for i in (0..size).rev().step_by(2): the in-place inner loop of evals(),
\* entered with i = size - 1 and walking down in steps of two
evals_pass(ev, rj, i) ==
  IF i < 1 THEN ev
  ELSE LET scalar == ev[(i \div 2) + 1]
           e1 == [ev EXCEPT ![i + 1] = FMul(scalar, rj)]
           e2 == [e1 EXCEPT ![i] = FSub(scalar, e1[i + 1])]
       IN  evals_pass(e2, rj, i - 2)

RECURSIVE evals_loop(_, _, _, _)
\* for j in 0..ell { size *= 2; ... }
evals_loop(ev, r, j, size) ==
  IF j >= Len(r) THEN ev
  ELSE evals_loop(evals_pass(ev, r[j + 1], 2 * size - 1), r, j + 1, 2 * size)

\* EqPolynomial::evals()
evals(r) == evals_loop([i \in 1 .. pow2(Len(r)) |-> one], r, 0, 1)

\* compute_factored_lens with the two halves exchanged.
compute_factored_lens_swapped(ell) == <<ell - ell \div 2, ell \div 2>>

\* EqPolynomial::compute_factored_lens
compute_factored_lens(ell) == <<ell \div 2, ell - ell \div 2>>

\* compute_factored_evals returning the halves in the other order.
compute_factored_evals_swapped(r) ==
  LET ell == Len(r)
      left == compute_factored_lens(ell)[1]
  IN  <<evals(SubSeq(r, left + 1, ell)), evals(SubSeq(r, 1, left))>>

\* EqPolynomial::compute_factored_evals
compute_factored_evals(r) ==
  LET ell == Len(r)
      left_num_vars == compute_factored_lens(ell)[1]
  IN  <<evals(SubSeq(r, 1, left_num_vars)), evals(SubSeq(r, left_num_vars + 1, ell))>>

\* PolyCommitmentGens::new(num_vars).gens
PolyCommitmentGens_new(num_vars) == pow2(compute_factored_lens(num_vars)[2])

\* tests::compute_chis_at_r, entry i: the per-entry product over the bits of i
compute_chis_at_r(r, i) ==
  ProdTo([j \in 1 .. Len(r) |->
            IF (i \div pow2(Len(r) - j)) % 2 = 1 THEN r[j] ELSE FSub(one, r[j])],
         Len(r))

\* The Boolean point x_i: the big-endian bits of i over n coordinates.
BitsOf(i, n) == [j \in 1 .. n |-> (i \div pow2(n - j)) % 2]


\* ------------------------------------------------------------------ DensePolynomial
\* DensePolynomial::new
DensePolynomial_new(Z) == [num_vars |-> log2(Len(Z)), len |-> Len(Z), Z |-> Z]

\* Z[from..to] as a vector (Rust half-open range)
Slice(Z, from, to) == SubSeq(Z, from + 1, to)

RECURSIVE top_loop(_, _, _, _)
\* for i in 0..n { Z[i] = Z[i] + r * (Z[i + n] - Z[i]) }
top_loop(Z, r, i, n) ==
  IF i >= n THEN Z
  ELSE top_loop([Z EXCEPT ![i + 1] = FAdd(Z[i + 1], FMul(r, FSub(Z[i + n + 1], Z[i + 1])))],
                r, i + 1, n)

\* bound_poly_var_top interpolating between neighbours instead of halves.
bound_poly_var_top_neighbours(p, r) ==
  LET n == p.len \div 2
  IN  [num_vars |-> p.num_vars - 1, len |-> n,
       Z |-> [i \in 1 .. Len(p.Z) |->
                IF i <= n
                THEN FAdd(p.Z[2 * i - 1], FMul(r, FSub(p.Z[2 * i], p.Z[2 * i - 1])))
                ELSE p.Z[i]]]

\* bound_poly_var_top that forgets to halve len.
bound_poly_var_top_keeps_len(p, r) ==
  LET n == p.len \div 2
  IN  [num_vars |-> p.num_vars - 1, len |-> p.len, Z |-> top_loop(p.Z, r, 0, n)]

\* DensePolynomial::bound_poly_var_top.  A num_vars below zero stands for the
\* wrapped usize 2^64 + num_vars (the subtraction at num_vars = 0 without
\* overflow checks).
bound_poly_var_top(p, r) ==
  LET n == p.len \div 2
  IN  [num_vars |-> p.num_vars - 1, len |-> n, Z |-> top_loop(p.Z, r, 0, n)]

RECURSIVE bot_loop(_, _, _, _)
\* for i in 0..n { Z[i] = Z[2 * i] + r * (Z[2 * i + 1] - Z[2 * i]) }
bot_loop(Z, r, i, n) ==
  IF i >= n THEN Z
  ELSE bot_loop([Z EXCEPT ![i + 1] = FAdd(Z[2 * i + 1], FMul(r, FSub(Z[2 * i + 2], Z[2 * i + 1])))],
                r, i + 1, n)

\* DensePolynomial::bound_poly_var_bot
bound_poly_var_bot(p, r) ==
  LET n == p.len \div 2
  IN  [num_vars |-> p.num_vars - 1, len |-> n, Z |-> bot_loop(p.Z, r, 0, n)]

\* The assertions of DensePolynomial::evaluate
evaluate_ok(p, r) == Len(r) = p.num_vars /\ pow2(Len(r)) = Len(p.Z)

\* evaluate weighting the table with the bit-reversed chis.
evaluate_reversed(p, r) ==
  LET chis == evals(r)
      n == Len(chis)
  IN  SumTo([i \in 1 .. n |-> FMul(chis[n + 1 - i], p.Z[i])], n)

\* DensePolynomial::evaluate, where its assertions hold
evaluate(p, r) ==
  LET chis == evals(r)
  IN  SumTo([i \in 1 .. Len(chis) |-> FMul(chis[i], p.Z[i])], Len(chis))

\* The assertion and the slice bounds of DensePolynomial::split
split_ok(p, idx) == idx < p.len /\ 2 * idx <= Len(p.Z)

\* DensePolynomial::split, where it does not panic
split(p, idx) ==
  <<DensePolynomial_new(Slice(p.Z, 0, idx)), DensePolynomial_new(Slice(p.Z, idx, 2 * idx))>>

\* DensePolynomial::clone
clone(p) == DensePolynomial_new(Slice(p.Z, 0, p.len))

\* The assertions of DensePolynomial::extend
extend_ok(p, other) == Len(p.Z) = p.len /\ Len(other.Z) = p.len

\* DensePolynomial::extend, where its assertions hold
extend(p, other) ==
  [num_vars |-> p.num_vars + 1, len |-> p.len * 2, Z |-> p.Z \o other.Z]

RECURSIVE concat(_, _)
\* for poly in polys { Z.extend(poly.vec()) }
concat(polys, k) == IF k = 0 THEN <<>> ELSE concat(polys, k - 1) \o polys[k].Z

\* Z.resize(new_len, Scalar::zero())
resize(Z, new_len) == [i \in 1 .. new_len |-> IF i <= Len(Z) THEN Z[i] ELSE zero]

\* DensePolynomial::merge
merge(polys) ==
  LET Z == concat(polys, Len(polys))
  IN  DensePolynomial_new(resize(Z, next_power_of_two(Len(Z), 1)))


\* ------------------------------------------------------------------ inputs
\* The table of tests::check_polynomial_evaluation.
ExampleTables == {<<1, 2, 1, 4>>}
\* The point of tests::check_polynomial_evaluation.
ExamplePoint == <<4, 3>>

\* Tables of 2^n evaluations: the unit tables, constant tables, a ramp and
\* the example table.
Tables(n) ==
  {[i \in 1 .. pow2(n) |-> IF i = k THEN 1 ELSE 0] : k \in 1 .. pow2(n)}
    \cup {[i \in 1 .. pow2(n) |-> c] : c \in {0, 1, 2}}
    \cup {[i \in 1 .. pow2(n) |-> i]}
    \cup {t \in ExampleTables : Len(t) = pow2(n)}

AllTables == UNION {Tables(n) : n \in 0 .. MaxVars}

\* Points of n coordinates.
Points(n) == Vectors(Coords, n)

AllPoints == UNION {Points(n) : n \in 0 .. MaxVars}

\* Fresh polynomials handed to extend and merge as the other operand.
OtherPolys ==
  {DensePolynomial_new([i \in 1 .. pow2(n) |-> 4 + i]) : n \in 0 .. MaxVars}

\* Points handed to evaluate on p: every point of the right length, and the
\* shortest points of the other lengths.
EvalPoints(p) ==
  Points(p.num_vars) \cup {[i \in 1 .. n |-> 3] : n \in 0 .. MaxVars}

\* Indices handed to split.
SplitIdx == 0 .. pow2(MaxVars)

\* ------------------------------------------------------------------ state
VARIABLES
  eq_r,      \* EqPolynomial.r
  chis,      \* the table returned by evals(), <<>> before the call
  LR,        \* the pair returned by compute_factored_evals(), <<>> before
  gens,      \* PolyCommitmentGens.gens, 0 before PolyCommitmentGens::new
  poly,      \* the DensePolynomial the operations act on
  Z0,        \* the table poly was built from by new, or grew to by extend
  tops,      \* the scalars bound by bound_poly_var_top since new, in order
  onlyTop,   \* TRUE while nothing but bound_poly_var_top has mutated poly
  nbinds,    \* binding calls since new or the last extend
  call,      \* the last call made and what it returned
  status,    \* "ok", or "abort" once an assertion or an index panicked
  point,     \* the point r handed to PolyEvalProof::prove
  decomm,    \* the PolyDecommitment commit returned, NoDecomm before
  prover_transcript,
  verifier_transcript,
  pf,        \* the PolyEvalProof prove returned, NoProof before
  vin,       \* what verify was called with: r, eval, the commitment
  res,       \* what the opening check returned to verify
  verdict    \* what verify returned: "none" before, "Ok", "InternalError", "abort"

eqVars == <<eq_r, chis, LR, gens>>
polyVars == <<poly, Z0, tops, onlyTop, nbinds, call, status>>
pcsVars == <<point, decomm, prover_transcript, verifier_transcript, pf, vin, res, verdict>>
vars == <<eq_r, chis, LR, gens, poly, Z0, tops, onlyTop, nbinds, call, status,
          point, decomm, prover_transcript, verifier_transcript, pf, vin, res, verdict>>

NoCall == [op |-> "none", idx |-> 0, pt |-> <<>>, args |-> <<>>, out |-> <<>>]
Returned(op, idx, pt, args, out) ==
  [op |-> op, idx |-> idx, pt |-> pt, args |-> args, out |-> out]

EqIdle == eq_r = <<>> /\ chis = <<>> /\ LR = <<>> /\ gens = 0
PolyIdle ==
  /\ poly = DensePolynomial_new(<<zero>>) /\ Z0 = <<zero>> /\ tops = <<>>
  /\ onlyTop = TRUE /\ nbinds = 0 /\ call = NoCall /\ status = "ok"

NoDecomm == [M |-> <<>>, n_rows |-> 0, n_per_row |-> 0]
NoProof == [p_eval |-> <<>>, root |-> NoDecomm, challenges |-> <<>>, n_per_row |-> 0,
            left_num_vars |-> 0, right_num_vars |-> 0]
NoInput == [r |-> <<>>, eval |-> 0, comm |-> NoDecomm, transcript |-> <<>>]
PcsIdle ==
  /\ point = <<>> /\ decomm = NoDecomm /\ prover_transcript = <<>>
  /\ verifier_transcript = <<>> /\ pf = NoProof /\ vin = NoInput
  /\ res = [ok |-> FALSE, val |-> 0] /\ verdict = "none"

\* ------------------------------------------------------------------ EqPolynomial calls
EqInit ==
  /\ eq_r \in UNION {Points(n) : n \in 0 .. MaxEll}
  /\ chis = <<>> /\ LR = <<>> /\ gens = 0
  /\ PolyIdle /\ PcsIdle

Evals ==
  /\ status = "ok" /\ chis = <<>>
  /\ chis' = evals(eq_r)
  /\ UNCHANGED <<eq_r, LR, gens, polyVars, pcsVars>>

ComputeFactoredEvals ==
  /\ status = "ok" /\ LR = <<>>
  /\ LR' = compute_factored_evals(eq_r)
  /\ UNCHANGED <<eq_r, chis, gens, polyVars, pcsVars>>

NewGens ==
  /\ status = "ok" /\ gens = 0
  /\ gens' = PolyCommitmentGens_new(Len(eq_r))
  /\ UNCHANGED <<eq_r, chis, LR, polyVars, pcsVars>>

\* Points handed to EqPolynomial::evaluate: the first, second and last corner
\* of the cube, r itself, and r cut short by one coordinate.
EqArgs(r) ==
  {BitsOf(i, Len(r)) : i \in {0, 1 % pow2(Len(r)), pow2(Len(r)) - 1}}
    \cup {r, SubSeq(r, 1, Len(r) - 1)}

\* EqPolynomial::new(eq_r).evaluate(&rx)
EqEvaluate ==
  /\ status = "ok"
  /\ \E rx \in EqArgs(eq_r) :
       LET got == eq_evaluate(eq_r, rx)
       IN  /\ call' = Returned("eq_evaluate", 0, rx, <<>>,
                               IF got.panic THEN <<>> ELSE <<got.val>>)
           /\ status' = IF got.panic THEN "abort" ELSE "ok"
  /\ UNCHANGED <<eqVars, poly, Z0, tops, onlyTop, nbinds, pcsVars>>

EqNext == Evals \/ ComputeFactoredEvals \/ NewGens \/ EqEvaluate

EqSpec == EqInit /\ [][EqNext]_vars

\* ------------------------------------------------------------------ DensePolynomial calls
PolyInit ==
  /\ EqIdle /\ PcsIdle
  /\ Z0 \in AllTables
  /\ poly = DensePolynomial_new(Z0)
  /\ tops = <<>> /\ onlyTop = TRUE /\ nbinds = 0
  /\ call = NoCall /\ status = "ok"

\* poly.bound_poly_var_top(&r).  At num_vars = 0 the subtraction underflows:
\* a panic with overflow checks, a wrapped num_vars without.
BoundPolyVarTop ==
  \E r \in BindCoords, overflow_checks \in BOOLEAN :
    /\ status = "ok" /\ poly.num_vars >= 0
    /\ poly.num_vars > 0 => overflow_checks
    /\ LET panics == poly.num_vars = 0 /\ overflow_checks
       IN  /\ poly' = IF panics THEN poly ELSE bound_poly_var_top(poly, r)
           /\ status' = IF panics THEN "abort" ELSE "ok"
           /\ tops' = IF onlyTop /\ ~panics THEN Append(tops, r) ELSE tops
           /\ nbinds' = IF panics THEN nbinds ELSE nbinds + 1
    /\ call' = NoCall
    /\ UNCHANGED <<Z0, onlyTop, eqVars, pcsVars>>

\* poly.bound_poly_var_bot(&r), with the same underflow at num_vars = 0
BoundPolyVarBot ==
  \E r \in BindCoords, overflow_checks \in BOOLEAN :
    /\ status = "ok" /\ poly.num_vars >= 0
    /\ poly.num_vars > 0 => overflow_checks
    /\ LET panics == poly.num_vars = 0 /\ overflow_checks
       IN  /\ poly' = IF panics THEN poly ELSE bound_poly_var_bot(poly, r)
           /\ status' = IF panics THEN "abort" ELSE "ok"
           /\ nbinds' = IF panics THEN nbinds ELSE nbinds + 1
           /\ onlyTop' = (onlyTop /\ panics)
           /\ tops' = IF panics THEN tops ELSE <<>>
    /\ call' = NoCall
    /\ UNCHANGED <<Z0, eqVars, pcsVars>>

\* poly.evaluate(&r)
Evaluate ==
  \E r \in EvalPoints(poly) :
    /\ status = "ok"
    /\ IF evaluate_ok(poly, r)
       THEN /\ call' = Returned("evaluate", 0, r, <<>>, <<evaluate(poly, r)>>)
            /\ status' = "ok"
       ELSE /\ call' = Returned("evaluate", 0, <<>>, <<>>, <<>>)
            /\ status' = "abort"
    /\ UNCHANGED <<poly, Z0, tops, onlyTop, nbinds, eqVars, pcsVars>>

\* poly.split(idx)
Split ==
  \E idx \in SplitIdx :
    /\ status = "ok"
    /\ IF split_ok(poly, idx)
       THEN /\ call' = Returned("split", idx, <<>>, <<>>, split(poly, idx))
            /\ status' = "ok"
       ELSE /\ call' = Returned("split", idx, <<>>, <<>>, <<>>)
            /\ status' = "abort"
    /\ UNCHANGED <<poly, Z0, tops, onlyTop, nbinds, eqVars, pcsVars>>

\* poly.clone()
Clone ==
  /\ status = "ok"
  /\ call' = Returned("clone", 0, <<>>, <<>>, <<clone(poly)>>)
  /\ UNCHANGED <<poly, Z0, tops, onlyTop, nbinds, status, eqVars, pcsVars>>

\* poly.extend(&other)
Extend ==
  \E other \in OtherPolys :
    /\ status = "ok" /\ poly.num_vars < MaxVars
    /\ IF extend_ok(poly, other)
       THEN /\ poly' = extend(poly, other)
            /\ status' = "ok"
            /\ nbinds' = 0
       ELSE /\ UNCHANGED <<poly, nbinds>>
            /\ status' = "abort"
    /\ call' = NoCall
    /\ onlyTop' = FALSE /\ tops' = <<>>
    /\ Z0' = poly'.Z
    /\ UNCHANGED <<eqVars, pcsVars>>

\* DensePolynomial::merge([&poly, &other])
Merge ==
  \E other \in OtherPolys :
    /\ status = "ok"
    /\ call' = Returned("merge", 0, <<>>, <<poly, other>>, <<merge(<<poly, other>>)>>)
    /\ UNCHANGED <<poly, Z0, tops, onlyTop, nbinds, status, eqVars, pcsVars>>

\* merged.split(idx) on the polynomial merge returned
SplitMerged ==
  \E idx \in SplitIdx :
    /\ status = "ok" /\ call.op = "merge"
    /\ IF split_ok(call.out[1], idx)
       THEN /\ call' = Returned("split_merged", idx, <<>>, call.args, split(call.out[1], idx))
            /\ status' = "ok"
       ELSE /\ call' = Returned("split_merged", idx, <<>>, call.args, <<>>)
            /\ status' = "abort"
    /\ UNCHANGED <<poly, Z0, tops, onlyTop, nbinds, eqVars, pcsVars>>

PolyNext ==
  \/ BoundPolyVarTop \/ BoundPolyVarBot \/ Evaluate \/ Split \/ Clone \/ Extend \/ Merge

PolySpec == PolyInit /\ [][PolyNext]_vars

\* Merging the polynomial, bound or not, with a fresh one and splitting the result.
MergeNext ==
  \/ (call = NoCall /\ BoundPolyVarTop) \/ Merge \/ SplitMerged

MergeSpec == PolyInit /\ [][MergeNext]_vars


\* ------------------------------------------------------------------ transcript
\* Transcript::new(label): the transcript is the sequence of what it absorbed
Message(label, text, root) == [label |-> label, text |-> text, C |-> root]
Transcript_new(label) == <<Message("new", label, NoDecomm)>>

\* PolyEvalProof::protocol_name
protocol_name == "polynomial evaluation proof"

\* ProofTranscript::append_protocol_name
append_protocol_name(t, name) == Append(t, Message("protocol-name", name, NoDecomm))

\* PolyCommitment::append_to_transcript(label, transcript) for the commitment C
append_to_transcript(C, label, t) ==
  t \o <<Message(label, "poly_commitment_begin", NoDecomm),
         Message("poly_commitment_share", "", C),
         Message(label, "poly_commitment_end", NoDecomm)>>

\* All but the last entry of a sequence
Front(t) == SubSeq(t, 1, Len(t) - 1)

\* ------------------------------------------------------------------ the opening scheme
\* The table Z as a grid of n_rows rows, row-major: entry (i, j)
Cell(c, i, j) == c.M[i * c.n_per_row + j + 1]

\* The rows of the grid combined with the weights L
Combine(c, L) ==
  [j \in 1 .. c.n_per_row |->
     SumTo([i \in 1 .. c.n_rows |-> FMul(L[i], Cell(c, i - 1, j - 1))], c.n_rows)]

\* The dot product of two vectors of equal length
Dot(a, b) == SumTo([j \in 1 .. Len(a) |-> FMul(a[j], b[j])], Len(a))

\* LigeroCommit::commit(&Z, &enc) with enc laying Z out in n_rows rows; the
\* root binds the whole grid
LigeroCommit_commit(Z, n_rows) ==
  [M |-> Z, n_rows |-> n_rows, n_per_row |-> Len(Z) \div n_rows]

\* decomm.get_root()
get_root(c) == c

\* decomm.prove(&L, &enc, transcript): the combined row, opened against the
\* root under challenges drawn from the transcript
LigeroCommit_prove(c, L, t, left, right) ==
  [p_eval |-> Combine(c, L), root |-> get_root(c), challenges |-> t,
   n_per_row |-> c.n_per_row, left_num_vars |-> left, right_num_vars |-> right]

\* The two shapes of a Result<Scalar, _>
Ok(v) == [ok |-> TRUE, val |-> v]
Err == [ok |-> FALSE, val |-> 0]

\* proof.verify(&root, &L, &R, &enc, transcript): Ok(p_eval . R) when the
\* openings check against the root under the verifier's challenges and the
\* rows combined with L give p_eval; Err otherwise
LigeroEvalProof_verify(proof, root, L, R, t) ==
  IF /\ root = proof.root
     /\ t = proof.challenges
     /\ Len(L) = root.n_rows /\ Len(R) = proof.n_per_row
     /\ Combine(root, L) = proof.p_eval
  THEN Ok(Dot(proof.p_eval, R))
  ELSE Err

\* What the opening leaves absorbed in the transcript
absorb_opening(t) == Append(t, Message("opening", "", NoDecomm))

\* ------------------------------------------------------------------ PolyEvalProof
\* let L = EqPolynomial::new(r[..left_num_vars].to_vec()).evals();
\* let R = EqPolynomial::new(r[left_num_vars..].to_vec()).evals();
tensors(r, left) ==
  <<evals(SubSeq(r, 1, left)), evals(SubSeq(r, left + 1, Len(r)))>>

\* The end of verify accepting whatever the opening check returned.
verify_result_accepts(opened, eval) == "Ok"

\* if res == *eval { Ok(()) } else { Err(ProofVerifyError::InternalError) }
verify_result(opened, eval) == IF opened = eval THEN "Ok" ELSE "InternalError"

\* The assertion of DensePolynomial::commit
commit_ok(p) == Len(p.Z) = pow2(p.num_vars)

\* The assertion of PolyEvalProof::prove on its arguments
prove_ok(p, c, r) == p.num_vars = Len(r) /\ log2(c.n_rows) <= Len(r)

\* PolyEvalProof::prove, where its assertions hold
prove(p, c, r, t) ==
  LET left_num_vars == log2(c.n_rows)
      right_num_vars == Len(r) - log2(c.n_rows)
      L == tensors(r, left_num_vars)[1]
  IN  LigeroCommit_prove(c, L, t, left_num_vars, right_num_vars)

\* The assertions of PolyEvalProof::verify
verify_ok(proof, r) ==
  /\ proof.left_num_vars + proof.right_num_vars = Len(r)
  /\ Len(tensors(r, proof.left_num_vars)[2]) = proof.n_per_row

\* What the opening check returns inside PolyEvalProof::verify
verify_opening(proof, t, r, comm) ==
  LET LRv == tensors(r, proof.left_num_vars)
  IN  LigeroEvalProof_verify(proof, comm, LRv[1], LRv[2], t)

\* r with coordinate j replaced by c
WithCoord(r, j, c) == [r EXCEPT ![j] = c]
\* Z with entry i raised by one
WithEntry(Z, i) == [Z EXCEPT ![i] = FAdd(Z[i], 1)]

\* What verify is called with: what the prover used, or that with a single
\* entry of Z, a single coordinate of r or the claimed evaluation changed, or
\* with r cut short.
VerifyInputs ==
  LET honest == [r |-> point, eval |-> evaluate(poly, point), comm |-> get_root(decomm),
                 transcript |-> verifier_transcript]
  IN  {honest}
        \cup {[honest EXCEPT !.comm = get_root(LigeroCommit_commit(WithEntry(Z0, i), decomm.n_rows))] :
                i \in 1 .. Len(Z0)}
        \cup {[honest EXCEPT !.r = WithCoord(point, j, c)] : j \in 1 .. Len(point), c \in Coords}
        \cup {[honest EXCEPT !.eval = FAdd(honest.eval, d)] : d \in {1, 2, P - 1}}
        \cup {[honest EXCEPT !.r = SubSeq(point, 1, Len(point) - 1)]}

\* ------------------------------------------------------------------ commit, prove, verify
PcsInit ==
  /\ EqIdle
  /\ Z0 \in AllTables
  /\ poly = DensePolynomial_new(Z0)
  /\ tops = <<>> /\ onlyTop = TRUE /\ nbinds = 0
  /\ call = NoCall /\ status = "ok"
  /\ point \in AllPoints
  /\ decomm = NoDecomm /\ pf = NoProof /\ vin = NoInput
  /\ prover_transcript = Transcript_new("example")
  /\ verifier_transcript = Transcript_new("example")
  /\ res = [ok |-> FALSE, val |-> 0] /\ verdict = "none"

\* poly.commit(&gens, None); the encoding picks the number of rows
Commit ==
  \E rows_log \in 0 .. MaxVars :
    /\ status = "ok" /\ decomm = NoDecomm
    /\ rows_log <= poly.num_vars
    /\ IF commit_ok(poly)
       THEN decomm' = LigeroCommit_commit(poly.Z, pow2(rows_log)) /\ status' = "ok"
       ELSE decomm' = decomm /\ status' = "abort"
    /\ UNCHANGED <<point, prover_transcript, verifier_transcript, pf, vin, res, verdict,
                   eqVars, poly, Z0, tops, onlyTop, nbinds, call>>

\* comm.append_to_transcript(b"poly", &mut transcript), on the prover's
\* transcript before it proves or on the verifier's before it verifies, at
\* most once on each
AppendToTranscript ==
  /\ status = "ok" /\ decomm # NoDecomm
  /\ \E prover \in BOOLEAN :
       IF prover
       THEN /\ pf = NoProof /\ Len(prover_transcript) = 1
            /\ prover_transcript' = append_to_transcript(get_root(decomm), "poly", prover_transcript)
            /\ UNCHANGED verifier_transcript
       ELSE /\ verdict = "none" /\ Len(verifier_transcript) = 1
            /\ verifier_transcript' = append_to_transcript(get_root(decomm), "poly", verifier_transcript)
            /\ UNCHANGED prover_transcript
  /\ UNCHANGED <<point, decomm, pf, vin, res, verdict, status,
                 eqVars, poly, Z0, tops, onlyTop, nbinds, call>>

\* PolyEvalProof::prove(&poly, &decomm, None, &r, &eval, None, &gens,
\*                      &mut prover_transcript, &mut random_tape)
Prove ==
  /\ status = "ok" /\ decomm # NoDecomm /\ pf = NoProof
  /\ LET t == append_protocol_name(prover_transcript, protocol_name)
     IN  IF prove_ok(poly, decomm, point)
         THEN /\ pf' = prove(poly, decomm, point, t)
              /\ prover_transcript' = absorb_opening(t)
              /\ status' = "ok"
         ELSE /\ pf' = pf
              /\ prover_transcript' = t
              /\ status' = "abort"
  /\ UNCHANGED <<point, decomm, verifier_transcript, vin, res, verdict,
                 eqVars, poly, Z0, tops, onlyTop, nbinds, call>>

\* proof.verify(&gens, &mut verifier_transcript, &r, &eval, &comm)
Verify ==
  /\ status = "ok" /\ pf # NoProof /\ verdict = "none"
  /\ \E in \in VerifyInputs :
    /\ vin' = in
    /\ LET t == append_protocol_name(verifier_transcript, protocol_name)
           opened == verify_opening(pf, t, in.r, in.comm)
       IN  IF ~verify_ok(pf, in.r)
           THEN /\ res' = Err /\ verdict' = "abort"
                /\ verifier_transcript' = t
           ELSE /\ res' = opened
                /\ verifier_transcript' = absorb_opening(t)
                /\ verdict' = IF ~opened.ok THEN "abort"
                              ELSE verify_result(opened.val, in.eval)
    /\ UNCHANGED <<point, decomm, prover_transcript, pf, status,
                   eqVars, poly, Z0, tops, onlyTop, nbinds, call>>

PcsNext == Commit \/ AppendToTranscript \/ Prove \/ Verify

PcsSpec == PcsInit /\ [][PcsNext]_vars

\* ------------------------------------------------------------------ EqPolynomial properties
\* C3: the table evals() returns has 2^ell entries and entry i is the naive
\* product over j of (r[j] if bit ell-1-j of i is set, else 1 - r[j]).
C3_EvalsEqualsNaive ==
  chis # <<>> =>
    /\ Len(chis) = pow2(Len(eq_r))
    /\ \A i \in 0 .. pow2(Len(eq_r)) - 1 : chis[i + 1] = compute_chis_at_r(eq_r, i)

C3_Witness ==
  /\ chis # <<>> /\ Len(eq_r) >= 3
  /\ eq_r[1] = 3 /\ eq_r[2] = 4 /\ eq_r[3] = P - 1
  /\ chis[7] = compute_chis_at_r(eq_r, 6)

\* C4: with (L, R) = compute_factored_evals(), L.len() * R.len() = 2^ell and
\* evals()[i * R.len() + j] = L[i] * R[j] for every i and j.
C4_OuterProduct ==
  (chis # <<>> /\ LR # <<>>) =>
    LET L == LR[1]
        R == LR[2]
    IN  /\ Len(L) * Len(R) = pow2(Len(eq_r))
        /\ \A i \in 0 .. Len(L) - 1, j \in 0 .. Len(R) - 1 :
             chis[i * Len(R) + j + 1] = FMul(L[i + 1], R[j + 1])

C4_Witness ==
  /\ chis # <<>> /\ LR # <<>> /\ Len(eq_r) = 3
  /\ eq_r[1] = 3 /\ eq_r[2] = 4 /\ eq_r[3] = 1
  /\ Len(LR[1]) = 2 /\ Len(LR[2]) = 4

\* ceil(ell / 2)
CeilHalf(ell) == ell - ell \div 2

\* C9 as stated: L has 2^ceil(ell/2) entries, R has 2^floor(ell/2) entries
\* and PolyCommitmentGens::new(ell).gens is the column count 2^floor(ell/2).
C9_AsStated ==
  (LR # <<>> /\ gens # 0) =>
    /\ Len(LR[1]) = pow2(CeilHalf(Len(eq_r)))
    /\ Len(LR[2]) = pow2(Len(eq_r) \div 2)
    /\ gens = pow2(Len(eq_r) \div 2)

\* C9 amended: L has 2^floor(ell/2) entries (the rows), R has 2^ceil(ell/2)
\* entries (the columns), and PolyCommitmentGens::new(ell).gens is R.len().
C9_FactoredSizes ==
  /\ LR # <<>> =>
       /\ Len(LR[1]) = pow2(Len(eq_r) \div 2)
       /\ Len(LR[2]) = pow2(CeilHalf(Len(eq_r)))
  /\ gens # 0 => gens = pow2(CeilHalf(Len(eq_r)))
  /\ (LR # <<>> /\ gens # 0) => gens = Len(LR[2])

C9_Witness ==
  /\ LR # <<>> /\ gens # 0 /\ Len(eq_r) = 3
  /\ Len(LR[1]) = 2 /\ Len(LR[2]) = 4 /\ gens = 4

\* ------------------------------------------------------------------ DensePolynomial properties
\* The multilinear extension of the table Z at r: the sum over i of
\* eq(r, x_i) * Z[i], x_i the big-endian bits of i.
MLE(Z, r) ==
  SumTo([i \in 1 .. Len(Z) |-> FMul(eq_evaluate(r, BitsOf(i - 1, Len(r))).val, Z[i])], Len(Z))

\* C2: evaluate(r) is the multilinear extension of the table at r, and the
\* table [1, 2, 1, 4] evaluates to 28 at [4, 3].
C2_EvaluateIsMLE ==
  (call.op = "evaluate" /\ status = "ok") =>
    /\ Len(poly.Z) = pow2(Len(call.pt))
    /\ call.out[1] = MLE(poly.Z, call.pt)
    /\ (poly.Z = <<1, 2, 1, 4>> /\ call.pt = ExamplePoint) => call.out[1] = 28 % P

C2_Witness ==
  /\ call.op = "evaluate" /\ status = "ok"
  /\ poly.Z = <<1, 2, 1, 4>> /\ call.pt = ExamplePoint
  /\ call.out = <<28 % P>>

\* C5: binding r[0], ..., r[n-1] in that order with bound_poly_var_top leaves
\* len = 1, num_vars = 0 and poly[0] = evaluate(r) of the original table.
C5_BindTopIsEvaluate ==
  (onlyTop /\ Len(tops) = log2(Len(Z0))) =>
    /\ poly.len = 1 /\ poly.num_vars = 0
    /\ poly.Z[1] = evaluate(DensePolynomial_new(Z0), tops)

C5_Witness ==
  /\ onlyTop /\ Z0 = <<1, 2, 1, 4>> /\ tops = ExamplePoint
  /\ poly.len = 1 /\ poly.Z[1] = 28 % P

\* len = Z.len() = 2^num_vars
Exact(p) == p.num_vars >= 0 /\ p.len = Len(p.Z) /\ p.len = pow2(p.num_vars)

\* C8 as stated, for the polynomial the calls act on and where num_vars has
\* not wrapped: while no call has aborted, len = Z.len() = 2^num_vars.
C8_AsStated ==
  (status = "ok" /\ poly.num_vars >= 0) => Exact(poly)

\* C8 amended: while every binding call was made with num_vars >= 1,
\* len = 2^num_vars and Z.len() = len * 2^(binding calls since new or the
\* last extend); clone and merge return len = Z.len() = 2^num_vars, and
\* split(idx) returns len = Z.len() = idx, 2^num_vars for idx a power of two.
C8_DataInvariant ==
  poly.num_vars >= 0 =>
    /\ poly.len = pow2(poly.num_vars)
    /\ Len(poly.Z) = poly.len * pow2(nbinds)
    /\ (nbinds = 0) <=> (Len(poly.Z) = poly.len)
    /\ call.op \in {"merge", "clone"} =>
         \A k \in 1 .. Len(call.out) : Exact(call.out[k])
    /\ call.op = "split" =>
         \A k \in 1 .. Len(call.out) :
           /\ call.out[k].len = call.idx /\ Len(call.out[k].Z) = call.idx
           /\ IsPow2(call.idx) => Exact(call.out[k])

C8_Witness ==
  /\ status = "ok" /\ nbinds = 2 /\ poly.num_vars = 0
  /\ poly.len = 1 /\ Len(poly.Z) = 4
  /\ call.op = "clone" /\ Len(call.out[1].Z) = 1

\* C10 as stated: split(idx) with idx # len / 2 fails and returns nothing;
\* with idx = len / 2 it returns (Z[0..idx], Z[idx..2 * idx]).
C10_SplitRejectsMismatch ==
  call.op = "split" =>
    IF call.idx # poly.len \div 2
    THEN status = "abort" /\ call.out = <<>>
    ELSE /\ status = "ok"
         /\ call.out[1].Z = Slice(poly.Z, 0, call.idx)
         /\ call.out[2].Z = Slice(poly.Z, call.idx, 2 * call.idx)

\* What split does: it returns whenever idx < len and 2 * idx <= Z.len().
SplitReturns ==
  call.op = "split" => ((status = "ok") <=> split_ok(poly, call.idx))

\* C7 as stated: for A.len() = B.len() a power of two, split(merge([A, B]),
\* A.len()) returns the tables of A and of B, both of length A.len(), and
\* merge added no padding.
C7_MergeSplitInverse ==
  (call.op = "split_merged" /\ call.args[1].len = call.args[2].len
     /\ IsPow2(call.args[1].len) /\ call.idx = call.args[1].len) =>
    LET A == call.args[1]
        B == call.args[2]
    IN  /\ status = "ok"
        /\ call.out[1].Z = Slice(A.Z, 0, A.len)
        /\ call.out[2].Z = Slice(B.Z, 0, B.len)
        /\ call.out[1].len = A.len /\ call.out[2].len = A.len

\* The same for A and B that were never bound (Z.len() = len).
MergeSplitInverseUnbound ==
  (call.op = "split_merged" /\ call.args[1].len = call.args[2].len
     /\ Len(call.args[1].Z) = call.args[1].len
     /\ IsPow2(call.args[1].len) /\ call.idx = call.args[1].len) =>
    /\ status = "ok"
    /\ call.out[1].Z = call.args[1].Z /\ call.out[2].Z = call.args[2].Z


\* ------------------------------------------------------------------ PolyEvalProof properties
\* What the prover proved: the point, the evaluation there and the commitment.
Honest ==
  [r |-> point, eval |-> evaluate(poly, point), comm |-> get_root(decomm),
   transcript |-> Front(pf.challenges)]

\* verify ran on a transcript in the state the prover's was in at prove.
Verified == verdict # "none" /\ vin.transcript = Front(pf.challenges)

\* C1 as stated: with equal transcript starts verify accepts what the prover
\* proved, and does not accept once a single entry of Z, a coordinate of r or
\* the claimed evaluation is changed.
C1_AsStated ==
  Verified =>
    /\ vin = Honest => verdict = "Ok"
    /\ (vin # Honest /\ Len(vin.r) = Len(point)) => verdict # "Ok"

\* C1 amended: with equal transcript starts verify accepts what the prover
\* proved; it does not accept a changed claimed evaluation, nor the
\* commitment of a table with a changed entry, nor a changed coordinate of r
\* unless the table still evaluates to the claimed value at the changed point.
C1_RoundTrip ==
  Verified =>
    /\ vin = Honest => verdict = "Ok"
    /\ vin.eval # Honest.eval => verdict = "InternalError"
    /\ vin.comm # Honest.comm => verdict # "Ok"
    /\ (vin.r # point /\ Len(vin.r) = Len(point)
          /\ evaluate(poly, vin.r) # vin.eval) => verdict # "Ok"

C1_Witness ==
  /\ Verified /\ vin = Honest /\ verdict = "Ok"
  /\ Z0 = <<1, 2, 1, 4>> /\ point = ExamplePoint
  /\ decomm.n_rows = 2 /\ res = Ok(28 % P)
  /\ Len(vin.transcript) = 4

\* A changed coordinate of r that verify accepts.
AcceptedChangedPoint ==
  /\ Verified /\ verdict = "Ok" /\ vin.r # point
  /\ vin.eval = Honest.eval /\ vin.comm = Honest.comm

\* An unequal length makes EqPolynomial::evaluate panic, an equal one never.
EqEvaluatePanics ==
  call.op = "eq_evaluate" => ((status = "abort") <=> (Len(call.pt) # Len(eq_r)))

\* C6 as stated: where the assertions of verify hold, verify returns
\* Err(InternalError) when the opening check returns an error and when the
\* recombined scalar differs from the claimed evaluation, and Ok(()) only
\* when the recombined scalar equals the claimed evaluation.
C6_FailuresAreInternalError ==
  (verdict # "none" /\ verify_ok(pf, vin.r)) =>
    /\ ~res.ok => verdict = "InternalError"
    /\ (res.ok /\ res.val # vin.eval) => verdict = "InternalError"
    /\ verdict = "Ok" => (res.ok /\ res.val = vin.eval)

\* What verify does: it returns only when the opening check returned a scalar.
VerifyReturns ==
  (verdict # "none" /\ verify_ok(pf, vin.r)) =>
    /\ ~res.ok => verdict = "abort"
    /\ res.ok => verdict = verify_result(res.val, vin.eval)

====
